---------------------------- MODULE Spec2Model ----------------------------
(***************************************************************************)
(* Model of src/discovery.py: FlexRadioDiscoveryListener (a UDP socket and *)
(* the dictionary self._packet_values) and FlexRadioDiscoveryPacket (the   *)
(* record built from that dictionary).                                     *)
(*                                                                         *)
(* Text and bytes are sequences of one-character strings.  The byte 0x00   *)
(* is the symbol "NUL".  Python's None and a bound method are the          *)
(* one-element sequences None and Method, which no text can equal.         *)
(***************************************************************************)
EXTENDS Integers, Sequences, FiniteSets, TLC

(***************************************************************************)
(* Bounds of the model and constants of the program.                       *)
(***************************************************************************)
MaxCalls == 3

HeaderLen == 28

RecvBufSize == 1024

None == <<"<None>">>

Method == <<"<bound method>">>

(***************************************************************************)
(* Python's str and bytes operations, as the code uses them.               *)
(***************************************************************************)

\* The elements of s at the indices in keep, in order.
KeepIdx(s, keep) ==
    LET n == Cardinality(keep)
        Nth(k) == CHOOSE i \in keep : Cardinality({j \in keep : j < i}) = k - 1
    IN  [k \in 1..n |-> s[Nth(k)]]

\* bs[n:] of a bytes object
SliceFrom(bs, n) == SubSeq(bs, n + 1, Len(bs))

\* The escape of one byte inside repr(bytes) with the given quote.
ReprByte(c, quote) ==
    IF c = "\\" THEN <<"\\", "\\">>
    ELSE IF c = quote THEN <<"\\", c>>
    ELSE IF c = "NUL" THEN <<"\\", "x", "0", "0">>
    ELSE <<c>>

\* The escapes of bs[lo], ..., bs[hi], concatenated (a stretch of bytes that
\* are their own escape is copied as it is).
RECURSIVE ReprBytes(_, _, _, _)
ReprBytes(bs, lo, hi, quote) ==
    IF lo > hi THEN <<>>
    ELSE IF \A i \in lo..hi : bs[i] \notin {"\\", quote, "NUL"} THEN SubSeq(bs, lo, hi)
    ELSE IF lo = hi THEN ReprByte(bs[lo], quote)
    ELSE LET mid == (lo + hi) \div 2
         IN  ReprBytes(bs, lo, mid, quote) \o ReprBytes(bs, mid + 1, hi, quote)

\* str(bs) of a bytes object in Python 3: its repr, b'...' or b"...".
BytesStr(bs) ==
    LET hasS  == \E i \in 1..Len(bs) : bs[i] = "'"
        hasD  == \E i \in 1..Len(bs) : bs[i] = "\""
        quote == IF hasS /\ ~hasD THEN "\"" ELSE "'"
    IN  <<"b", quote>> \o ReprBytes(bs, 1, Len(bs), quote) \o <<quote>>

\* s.split(sep) for a one-character separator: always at least one part.
Split(s, sep) ==
    LET pos == {i \in 1..Len(s) : s[i] = sep}
        n   == Cardinality(pos) + 1
        Cut(k) == IF k = 0 THEN 0
                  ELSE IF k = n THEN Len(s) + 1
                  ELSE CHOOSE i \in pos : Cardinality({j \in pos : j < i}) = k - 1
    IN  [k \in 1..n |-> SubSeq(s, Cut(k - 1) + 1, Cut(k) - 1)]

\* "b'" in key
HasBQuote(key) == \E i \in 1..(Len(key) - 1) : key[i] = "b" /\ key[i + 1] = "'"

\* key.replace("b'", ""): every occurrence removed (occurrences cannot overlap).
StripBQuote(key) ==
    LET starts == {i \in 1..(Len(key) - 1) : key[i] = "b" /\ key[i + 1] = "'"}
        keep   == {i \in 1..Len(key) : i \notin starts /\ (i - 1) \notin starts}
    IN  KeepIdx(key, keep)

(***************************************************************************)
(* A dict is a sequence of <<key, value>> pairs with distinct keys, in     *)
(* insertion order, as Python's dict keeps them.                           *)
(***************************************************************************)

\* d[k] = v
DictSet(d, k, v) ==
    IF \E i \in 1..Len(d) : d[i][1] = k
    THEN [i \in 1..Len(d) |-> IF d[i][1] = k THEN <<k, v>> ELSE d[i]]
    ELSE Append(d, <<k, v>>)

(***************************************************************************)
(* class FlexRadioDiscoveryPacket                                          *)
(***************************************************************************)

\* The attributes __init__ sets to None, in its order.
InstanceAttrs ==
    << <<"r", "e", "q", "u", "i", "r", "e", "s", "_", "a", "d", "d", "i", "t", "i", "o", "n", "a", "l", "_", "l", "i", "c", "e", "n", "s", "e">>,
       <<"n", "i", "c", "k", "n", "a", "m", "e">>,
       <<"v", "e", "r", "s", "i", "o", "n">>,
       <<"d", "i", "s", "c", "o", "v", "e", "r", "y", "_", "p", "r", "o", "t", "o", "c", "o", "l", "_", "v", "e", "r", "s", "i", "o", "n">>,
       <<"i", "n", "u", "s", "e", "_", "i", "p">>,
       <<"m", "o", "d", "e", "l">>,
       <<"m", "a", "x", "_", "l", "i", "c", "e", "n", "s", "e", "d", "_", "v", "e", "r", "s", "i", "o", "n">>,
       <<"s", "e", "r", "i", "a", "l">>,
       <<"i", "n", "u", "s", "e", "_", "h", "o", "s", "t">>,
       <<"p", "o", "r", "t">>,
       <<"r", "a", "d", "i", "o", "_", "l", "i", "c", "e", "n", "s", "e", "_", "i", "d">>,
       <<"i", "p">>,
       <<"s", "t", "a", "t", "u", "s">>,
       <<"c", "a", "l", "l", "s", "i", "g", "n">>,
       <<"f", "p", "c", "_", "m", "a", "c">> >>

\* Names dir(self) lists besides the instance attributes: the class's own
\* members and (some of) the members every object has.
ClassAttrs ==
    { <<"_", "a", "s", "s", "i", "g", "n", "V", "a", "l", "u", "e", "s">>,
      <<"_", "_", "i", "n", "i", "t", "_", "_">>,
      <<"_", "_", "d", "o", "c", "_", "_">>,
      <<"_", "_", "c", "l", "a", "s", "s", "_", "_">> }

\* dir(self) once __init__ has set the attributes
DirSelf == {InstanceAttrs[i] : i \in 1..Len(InstanceAttrs)} \cup ClassAttrs

\* item.startswith(prefix)
StartsWith(item, prefix) ==
    Len(item) >= Len(prefix) /\ SubSeq(item, 1, Len(prefix)) = prefix

\* [item for item in dir(self) if not item.startswith("__")]
obj_var_list == {item \in DirSelf : ~StartsWith(item, <<"_", "_">>)}

\* The object after the assignments of __init__: what each name of
\* obj_var_list evaluates to on it, and what it has printed.
NewPacket ==
    [attrs   |-> [a \in obj_var_list |->
                    IF \E i \in 1..Len(InstanceAttrs) : InstanceAttrs[i] = a
                    THEN None ELSE Method],
     printed |-> <<>>]

\* The loop of _assignValues from item i of packet_values on.
RECURSIVE AssignFrom(_, _, _)
AssignFrom(self, packet_values, i) ==
    IF i > Len(packet_values) THEN self
    ELSE LET k == packet_values[i][1]
             v == packet_values[i][2]
         IN  AssignFrom(IF k \in obj_var_list
                        THEN [self EXCEPT !.attrs[k] = v]
                        ELSE [self EXCEPT !.printed = Append(@, <<k, v>>)],
                        packet_values, i + 1)

\* FlexRadioDiscoveryPacket._assignValues
AssignValues(self, packet_values) == AssignFrom(self, packet_values, 1)

\* FlexRadioDiscoveryPacket(packet_values)
FlexRadioDiscoveryPacket(packet_values) == AssignValues(NewPacket, packet_values)

(***************************************************************************)
(* class FlexRadioDiscoveryListener                                        *)
(***************************************************************************)

\* What self._sock.recvfrom returns besides a datagram: socket.timeout raised.
Timeout == <<"<timeout>">>

\* recvfrom(1024): at most RecvBufSize bytes of the datagram, the rest dropped.
RecvFrom(dgram) ==
    SubSeq(dgram, 1, IF Len(dgram) < RecvBufSize THEN Len(dgram) ELSE RecvBufSize)

\* str(packet[0][28:]).split(" ")
Plist(data) == Split(BytesStr(SliceFrom(data, HeaderLen)), " ")

\* Unpack with a slip: a token without "=" is taken as a key with an empty
\* value (what item.partition("=") would give).
UnpackLenient(item) ==
    LET parts == Split(item, "=")
    IN  IF Len(parts) = 2
        THEN [ok |-> TRUE, key |-> parts[1], value |-> parts[2]]
        ELSE IF Len(parts) = 1
        THEN [ok |-> TRUE, key |-> parts[1], value |-> <<>>]
        ELSE [ok |-> FALSE, key |-> <<>>, value |-> <<>>]

\* key, value = item.split("="): ValueError unless there are exactly two parts.
Unpack(item) ==
    LET parts == Split(item, "=")
    IN  IF Len(parts) = 2
        THEN [ok |-> TRUE, key |-> parts[1], value |-> parts[2]]
        ELSE [ok |-> FALSE, key |-> <<>>, value |-> <<>>]

\* The loop over plist from item i on: the dictionary as the loop leaves it,
\* and whether the loop ended in ValueError.
RECURSIVE StoreFrom(_, _, _)
StoreFrom(pv, plist, i) ==
    IF i > Len(plist) THEN [pv |-> pv, raised |-> FALSE]
    ELSE LET kv  == Unpack(plist[i])
             key == IF HasBQuote(kv.key) THEN StripBQuote(kv.key) ELSE kv.key
         IN  IF ~kv.ok THEN [pv |-> pv, raised |-> TRUE]
             ELSE StoreFrom(DictSet(pv, key, kv.value), plist, i + 1)

\* What the caller holds when no FlexRadioDiscoveryPacket was returned.
NoPacket == [attrs |-> <<>>, printed |-> <<>>]

\* getDiscoveryPacket with a slip: socket.timeout is not caught, and reaches
\* the caller.
getDiscoveryPacketNoExcept(pv, recv) ==
    IF recv = Timeout
    THEN [pv |-> pv, kind |-> "raised", packet |-> NoPacket]
    ELSE LET r == StoreFrom(pv, Plist(recv), 1)
         IN  IF r.raised
             THEN [pv |-> r.pv, kind |-> "raised", packet |-> NoPacket]
             ELSE [pv |-> r.pv, kind |-> "packet",
                   packet |-> FlexRadioDiscoveryPacket(r.pv)]

\* FlexRadioDiscoveryListener.getDiscoveryPacket on a listener whose
\* _packet_values is pv, when recvfrom gives recv (a datagram's bytes, or
\* Timeout): the new _packet_values and what the caller gets.
getDiscoveryPacket(pv, recv) ==
    IF recv = Timeout
    THEN [pv |-> pv, kind |-> "None", packet |-> NoPacket]
    ELSE LET r == StoreFrom(pv, Plist(recv), 1)
         IN  IF r.raised
             THEN [pv |-> r.pv, kind |-> "raised", packet |-> NoPacket]
             ELSE [pv |-> r.pv, kind |-> "packet",
                   packet |-> FlexRadioDiscoveryPacket(r.pv)]

(***************************************************************************)
(* The environment: the datagrams the network may deliver, and the         *)
(* platform's rule for binding a UDP socket.                               *)
(***************************************************************************)

txt_scenario ==
    <<"m", "o", "d", "e", "l", "=", "F", "L", "E", "X", "-", "6", "6", "0", "0", " ", "s", "e", "r", "i", "a", "l", "=", "1", "2", "3", "4", "-", "5", "6", "7", "8", " ", "s", "t", "a", "t", "u", "s", "=", "A", "v", "a", "i", "l", "a", "b", "l", "e", " ", "c", "a", "l", "l", "s", "i", "g", "n", "=", "N", "0", "C", "A", "L", "L">>

txt_foo ==
    <<"f", "o", "o", "=", "b", "a", "r", " ", "m", "o", "d", "e", "l", "=", "F", "L", "E", "X", "-", "6", "6", "0", "0">>

txt_nokey ==
    <<"i", "p", "=", "1", " ", "n", "o", "k", "e", "y">>

txt_two_eq ==
    <<"n", "i", "c", "k", "n", "a", "m", "e", "=", "a", "=", "b">>

txt_assign ==
    <<"_", "a", "s", "s", "i", "g", "n", "V", "a", "l", "u", "e", "s", "=", "x", " ", "s", "e", "r", "i", "a", "l", "=", "9">>

txt_case ==
    <<"M", "o", "d", "e", "l", "=", "Z">>

txt_quote ==
    <<"a", "b", "'", "c", "=", "\\", " ", "p", "o", "r", "t", "=", "NUL">>

txt_short ==
    <<"m", "o", "d", "e", "l", "=", "A">>

txt_nokey_first ==
    <<"n", "o", "k", "e", "y", " ", "m", "o", "d", "e", "l", "=", "A">>

txt_empty_token ==
    <<"i", "p", "=", "1", " ", " ", "p", "o", "r", "t", "=", "2">>

\* A text longer than the receive buffer leaves room for: a token of
\* RecvBufSize - HeaderLen bytes, then a token without "=".
txt_long ==
    <<"m", "o", "d", "e", "l", "=">>
    \o [i \in 1..(RecvBufSize - HeaderLen - 6) |-> "A"]
    \o <<" ", "n", "o", "k", "e", "y">>

\* The header of a discovery datagram: HeaderLen bytes the code never reads.
Header == [i \in 1..HeaderLen |-> "NUL"]

Datagrams ==
    { Header \o txt_scenario, Header \o txt_foo, Header \o txt_nokey,
      Header \o txt_two_eq, Header \o txt_assign, Header \o txt_case,
      Header \o txt_quote, Header \o txt_nokey_first, Header \o txt_empty_token,
      Header \o txt_long, Header, txt_short }

Listeners == {1, 2}

DefaultPort == 4992

\* The arguments the listeners are constructed with (the defaults).
Addrs == {"0.0.0.0"}

Ports == {DefaultPort}

\* Linux (and Windows) let a UDP socket bind an address and port another
\* socket is bound to when both have SO_REUSEADDR set; BSD-derived systems
\* refuse it.
Platforms == {"linux", "bsd"}

VARIABLES
    platform,         \* the system the program runs on
    sock,             \* listener -> its self._sock
    packet_values,    \* listener -> its self._packet_values
    result,           \* what the last getDiscoveryPacket call gave its caller
    last,             \* the last call: the listener, and what the network sent
    recvCalls,        \* the number of recvfrom calls made so far
    shadow_values,    \* history: packet_values, had no datagram on which the
                      \* call raised ever been received
    shadow_result,    \* history: the last call's result in that case
    returned          \* history: every (listener, datagram, record) returned

vars == <<platform, sock, packet_values, result, last, recvCalls,
          shadow_values, shadow_result, returned>>

Unconstructed == [state |-> "Unbound", addr |-> "", port |-> 0, reuseaddr |-> FALSE]

Init ==
    /\ platform \in Platforms
    /\ sock = [l \in Listeners |-> Unconstructed]
    /\ packet_values = [l \in Listeners |-> <<>>]
    /\ result = [listener |-> 0, kind |-> "init", packet |-> NoPacket]
    /\ last = [listener |-> 0, dgram |-> <<>>]
    /\ recvCalls = 0
    /\ shadow_values = [l \in Listeners |-> <<>>]
    /\ shadow_result = [kind |-> "init", packet |-> NoPacket]
    /\ returned = {}

\* self._sock.bind((ipaddr, port)) of listener l, whose socket has
\* SO_REUSEADDR set: whether the platform accepts it.
BindSucceeds(l, ipaddr, port) ==
    LET clash == {o \in Listeners \ {l} :
                    /\ sock[o].state = "Bound"
                    /\ sock[o].addr = ipaddr
                    /\ sock[o].port = port}
    IN  \/ clash = {}
        \/ platform = "linux" /\ \A o \in clash : sock[o].reuseaddr

\* FlexRadioDiscoveryListener(ipaddr, port, timeout): the listener is Bound,
\* or bind raised and there is no listener.
Construct(l, ipaddr, port) ==
    /\ sock[l].state = "Unbound"
    /\ sock' = [sock EXCEPT ![l] =
                  [state     |-> IF BindSucceeds(l, ipaddr, port)
                                 THEN "Bound" ELSE "Failed",
                   addr      |-> ipaddr,
                   port      |-> port,
                   reuseaddr |-> TRUE]]
    /\ packet_values' = [packet_values EXCEPT ![l] = <<>>]
    /\ shadow_values' = [shadow_values EXCEPT ![l] = <<>>]
    /\ UNCHANGED <<platform, result, last, recvCalls, shadow_result, returned>>

\* listener l's getDiscoveryPacket(), the network delivering dgram (or
\* nothing within the timeout).
Call(l, dgram) ==
    /\ sock[l].state = "Bound"
    /\ recvCalls < MaxCalls
    /\ LET recv   == IF dgram = Timeout THEN Timeout ELSE RecvFrom(dgram)
           out    == getDiscoveryPacket(packet_values[l], recv)
           shadow == getDiscoveryPacket(shadow_values[l], recv)
       IN  /\ packet_values' = [packet_values EXCEPT ![l] = out.pv]
           /\ result' = [listener |-> l, kind |-> out.kind, packet |-> out.packet]
           /\ shadow_values' = IF out.kind = "raised" THEN shadow_values
                               ELSE [shadow_values EXCEPT ![l] = shadow.pv]
           /\ shadow_result' = IF out.kind = "raised" THEN shadow_result
                               ELSE [kind |-> shadow.kind, packet |-> shadow.packet]
           /\ returned' = IF out.kind = "packet"
                          THEN returned \cup {<<l, dgram, out.packet.attrs>>}
                          ELSE returned
    /\ last' = [listener |-> l, dgram |-> dgram]
    /\ recvCalls' = recvCalls + 1
    /\ UNCHANGED <<platform, sock>>

\* One program holding one listener.
Next ==
    \/ \E ipaddr \in Addrs, port \in Ports : Construct(1, ipaddr, port)
    \/ \E dgram \in Datagrams \cup {Timeout} : Call(1, dgram)

Spec == Init /\ [][Next]_vars

\* One program constructing and using two listeners.
NextTwo ==
    \/ \E l \in Listeners, ipaddr \in Addrs, port \in Ports : Construct(l, ipaddr, port)
    \/ \E l \in Listeners, dgram \in Datagrams \cup {Timeout} : Call(l, dgram)

SpecTwo == Init /\ [][NextTwo]_vars

(***************************************************************************)
(* The properties.  They speak of a datagram as the specification does: a  *)
(* header of HeaderLen bytes, then tokens separated by spaces, each a key,  *)
(* "=", and a value.                                                       *)
(***************************************************************************)

\* The known schema fields.
KnownFields == {InstanceAttrs[i] : i \in 1..Len(InstanceAttrs)}

\* The tokens of a datagram: its bytes after the header, split at spaces.
Tokens(dgram) == Split(SliceFrom(dgram, HeaderLen), " ")

EqAt(tok) == {i \in 1..Len(tok) : tok[i] = "="}

HasEq(tok) == EqAt(tok) # {}

FirstEq(tok) == CHOOSE i \in EqAt(tok) : \A j \in EqAt(tok) : i <= j

\* The key and the value of a token that has a "=": the text before and
\* after its first "=".
KeyOf(tok) == SubSeq(tok, 1, FirstEq(tok) - 1)

ValueOf(tok) == SubSeq(tok, FirstEq(tok) + 1, Len(tok))

\* The keys a datagram mentions.
KeysOf(dgram) ==
    {KeyOf(Tokens(dgram)[i]) : i \in {j \in 1..Len(Tokens(dgram)) : HasEq(Tokens(dgram)[j])}}

\* The value a datagram gives key k: that of the last token with that key.
ValueIn(dgram, k) ==
    LET toks == Tokens(dgram)
        at   == {i \in 1..Len(toks) : HasEq(toks[i]) /\ KeyOf(toks[i]) = k}
    IN  ValueOf(toks[CHOOSE i \in at : \A j \in at : j <= i])

\* A datagram with its header whose every token has a "=".
WellFormed(dgram) ==
    /\ Len(dgram) >= HeaderLen
    /\ \A i \in 1..Len(Tokens(dgram)) : HasEq(Tokens(dgram)[i])

\* A datagram with its header whose every token is a key, one "=", and a
\* value without "=".
Simple(dgram) ==
    /\ Len(dgram) >= HeaderLen
    /\ \A i \in 1..Len(Tokens(dgram)) : Cardinality(EqAt(Tokens(dgram)[i])) = 1

\* The last call received a datagram (it did not time out).
Received == last.listener # 0 /\ last.dgram # Timeout

\* The number of entries key, value among what the record printed.
Reports(printed, k, v) == Cardinality({i \in 1..Len(printed) : printed[i] = <<k, v>>})

\* C1: the record returned for a datagram is built from that datagram
\* alone: a known field whose key the datagram does not mention is None,
\* whatever earlier datagrams on the listener carried.
C1_NoMerging ==
    (Received /\ result.kind = "packet") =>
        \A f \in KnownFields \ KeysOf(last.dgram) : result.packet.attrs[f] = None

\* C2: a call that fails leaves no trace: every record returned is the one
\* that would have been returned had the datagrams on which a call failed
\* never been received.
C2_FailureScoped ==
    (Received /\ result.kind = "packet") => result.packet = shadow_result.packet

\* C3: for a datagram whose tokens all have known keys, the record has
\* each mentioned field equal to the value text of its token, every other
\* known field None, and nothing is reported as unrecognized.
C3_KnownFieldsExact ==
    (Received /\ Simple(last.dgram) /\ KeysOf(last.dgram) \subseteq KnownFields) =>
        /\ result.kind = "packet"
        /\ \A f \in KeysOf(last.dgram) : result.packet.attrs[f] = ValueIn(last.dgram, f)
        /\ \A f \in KnownFields \ KeysOf(last.dgram) : result.packet.attrs[f] = None
        /\ result.packet.printed = <<>>

\* C4: for a datagram with a token whose key is not a known field, the
\* call succeeds, that key and value are reported once, the known fields
\* the datagram mentions are set and the others are None.
C4_UnknownKeyTolerated ==
    (Received /\ Simple(last.dgram) /\ ~(KeysOf(last.dgram) \subseteq KnownFields)) =>
        /\ result.kind = "packet"
        /\ \A k \in KeysOf(last.dgram) \ KnownFields :
              Reports(result.packet.printed, k, ValueIn(last.dgram, k)) = 1
        /\ \A f \in KeysOf(last.dgram) \cap KnownFields :
              result.packet.attrs[f] = ValueIn(last.dgram, f)
        /\ \A f \in KnownFields \ KeysOf(last.dgram) : result.packet.attrs[f] = None

\* C5, as stated: for every datagram with a token without "=", and every
\* datagram shorter than the header, the call fails and returns no record.
C5_MalformedAlwaysRaises ==
    (Received /\ ~WellFormed(last.dgram)) => result.kind = "raised"

\* C5, amended: for every datagram of at most RecvBufSize bytes with a token
\* without "=", and every datagram shorter than the header, the call fails
\* and returns no record.
C5_MalformedRaises ==
    (Received /\ Len(last.dgram) <= RecvBufSize /\ ~WellFormed(last.dgram)) =>
        result.kind = "raised"

\* A call failed on a datagram whose first token is well formed and whose
\* second has no "=".
C5_Witness ==
    /\ Received
    /\ last.dgram = Header \o txt_nokey
    /\ result.kind = "raised"

\* C6: a call that times out returns None, makes exactly one receive
\* attempt, and leaves the listener Bound and its state as it was.
C6_TimeoutNoEffect ==
    [][(recvCalls' # recvCalls /\ last'.dgram = Timeout) =>
          /\ result'.kind = "None"
          /\ recvCalls' = recvCalls + 1
          /\ sock' = sock
          /\ sock'[last'.listener].state = "Bound"
          /\ packet_values' = packet_values]_vars

\* A call timed out on a listener that had received datagrams before.
C6_Witness ==
    /\ last.listener # 0
    /\ last.dgram = Timeout
    /\ result.kind = "None"
    /\ packet_values[last.listener] # <<>>

\* C7: two calls on a listener that receive the same bytes return records
\* that agree on every field, whatever was received before or between.
C7_Idempotent ==
    \A a \in returned, b \in returned :
        (a[1] = b[1] /\ a[2] = b[2]) =>
            \A f \in KnownFields : a[3][f] = b[3][f]

\* C8: a token with two or more "=" is split at its first "=": the call
\* succeeds, with the field named by the key set to all the text after it.
C8_SplitOnFirstEq ==
    (/\ Received
     /\ WellFormed(last.dgram)
     /\ \E i \in 1..Len(Tokens(last.dgram)) : Cardinality(EqAt(Tokens(last.dgram)[i])) >= 2) =>
        /\ result.kind = "packet"
        /\ \A f \in KeysOf(last.dgram) \cap KnownFields :
              result.packet.attrs[f] = ValueIn(last.dgram, f)

\* C9: no two listeners are ever Bound to the same address and port (the
\* second construction fails).
C9_ExclusiveBind ==
    \A l \in Listeners, o \in Listeners :
        (l # o /\ sock[l].state = "Bound" /\ sock[o].state = "Bound") =>
            ~(sock[l].addr = sock[o].addr /\ sock[l].port = sock[o].port)

\* C10: a key of the dictionary is recognized exactly when it is one of
\* the known fields: a known key sets its field and is not reported, every
\* other key is reported and changes nothing else on the record.
C10_RecognizedIffKnown ==
    (Received /\ result.kind = "packet") =>
        LET pv == packet_values[result.listener]
        IN  /\ \A i \in 1..Len(pv) :
                  IF pv[i][1] \in KnownFields
                  THEN /\ result.packet.attrs[pv[i][1]] = pv[i][2]
                       /\ Reports(result.packet.printed, pv[i][1], pv[i][2]) = 0
                  ELSE Reports(result.packet.printed, pv[i][1], pv[i][2]) = 1
            /\ \A a \in (DOMAIN result.packet.attrs) \ KnownFields :
                  result.packet.attrs[a] = NewPacket.attrs[a]

=============================================================================
